---- MODULE Spec2Model ----
(***************************************************************************)
(* Model of src/ui/views/components/tooltip.js: the placement calculator   *)
(* getTooltipPosition with its helpers, and the Tooltip component's        *)
(* enter/leave state machine.                                              *)
(*                                                                         *)
(* Numbers.  Rect fields, viewport sizes and offsets are integer pixels.   *)
(* The code halves widths and heights, so every intermediate JS Number is  *)
(* a multiple of 0.5px.  Such a Number x is represented by the integer     *)
(* 2*x ("half-pixels"); Num(px) converts an integer pixel count, and       *)
(* parseInt truncates a Number toward zero back to integer pixels.         *)
(***************************************************************************)
EXTENDS Integers, Sequences, FiniteSets, TLC

VARIABLES call, ret, last, unmounted, visible, position, place, props

vars == <<call, ret, last, unmounted, visible, position, place, props>>

\* ---------------------------------------------------------------- bounds
MinSize == 1
MaxSize == 2
MaxLeft == 1
MaxTop == 8
ViewStep == 4
MaxViewW == 2
MaxViewH == 3
MaxOff == 1

\* ------------------------------------------------------------- constants
Sides == <<"top", "bottom", "left", "right">>

SideSet == {"top", "bottom", "left", "right"}

Undefined == "undefined"

triangleHeight == 6

\* ------------------------------------------------------------ arithmetic
Num(px) == 2 * px

parseInt(n) == IF n >= 0 THEN n \div 2 ELSE -((-n) \div 2)

\* -------------------------------------------------------------- helpers
getDimensions(rect) ==
    [width  |-> parseInt(Num(rect.width)),
     height |-> parseInt(Num(rect.height)),
     top    |-> parseInt(Num(rect.top)),
     left   |-> parseInt(Num(rect.left))]

getCurrentMouseOffset(currentTarget) ==
    LET d == getDimensions(currentTarget)
    IN  [mouseX |-> Num(d.left) + d.width,
         mouseY |-> Num(d.top) + d.height]

getDefaultPosition(targetWidth, targetHeight, tipWidth, tipHeight) ==
    [top    |-> [l |-> -tipWidth,
                 r |-> tipWidth,
                 t |-> -(targetHeight + Num(tipHeight) + Num(triangleHeight)),
                 b |-> -targetHeight],
     bottom |-> [l |-> -tipWidth,
                 r |-> tipWidth,
                 t |-> targetHeight + Num(triangleHeight),
                 b |-> targetHeight + Num(tipHeight)],
     left   |-> [l |-> -(Num(tipWidth) + targetWidth),
                 r |-> -targetWidth + Num(triangleHeight),
                 t |-> -tipHeight,
                 b |-> tipHeight],
     right  |-> [l |-> targetWidth + Num(triangleHeight),
                 r |-> Num(tipWidth) + targetWidth,
                 t |-> -tipHeight,
                 b |-> tipHeight]]

OffsetOf(offset, key) ==
    IF key \in DOMAIN offset THEN parseInt(Num(offset[key])) ELSE 0

calculateOffset(offset) ==
    [extraOffsetX |-> OffsetOf(offset, "right") - OffsetOf(offset, "left"),
     extraOffsetY |-> OffsetOf(offset, "bottom") - OffsetOf(offset, "top")]

\* ------------------------------------------- getTooltipPosition closures
defaultOffset(c) ==
    LET tip    == getDimensions(c.node)
        target == getDimensions(c.target)
    IN  getDefaultPosition(target.width, target.height, tip.width, tip.height)

getTipOffsetLeft(c, p) ==
    getCurrentMouseOffset(c.target).mouseX + defaultOffset(c)[p].l
        + Num(calculateOffset(c.offset).extraOffsetX)

getTipOffsetRight(c, p) ==
    getCurrentMouseOffset(c.target).mouseX + defaultOffset(c)[p].r
        + Num(calculateOffset(c.offset).extraOffsetX)

getTipOffsetTop(c, p) ==
    getCurrentMouseOffset(c.target).mouseY + defaultOffset(c)[p].t
        + Num(calculateOffset(c.offset).extraOffsetY)

getTipOffsetBottom(c, p) ==
    getCurrentMouseOffset(c.target).mouseY + defaultOffset(c)[p].b
        + Num(calculateOffset(c.offset).extraOffsetY)

\* Mutation of outside: the four comparisons made non-strict.
outsideNonStrict(c, p) ==
    \/ getTipOffsetLeft(c, p) <= 0
    \/ getTipOffsetRight(c, p) >= Num(c.innerWidth)
    \/ getTipOffsetTop(c, p) <= 0
    \/ getTipOffsetBottom(c, p) >= Num(c.innerHeight)

outside(c, p) ==
    \/ getTipOffsetLeft(c, p) < 0
    \/ getTipOffsetRight(c, p) > Num(c.innerWidth)
    \/ getTipOffsetTop(c, p) < 0
    \/ getTipOffsetBottom(c, p) > Num(c.innerHeight)

inside(c, p) == ~outside(c, p)

\* Mutation of insideList: the candidates filtered in the opposite order.
insideListReversed(c) ==
    SelectSeq(<<"right", "left", "bottom", "top">>, LAMBDA p : inside(c, p))

insideList(c) == SelectSeq(Sides, LAMBDA p : inside(c, p))

\* Mutation of newPlace: the first inside side wins even when desiredPlace is inside.
newPlaceIgnoresDesired(c) ==
    IF Len(insideList(c)) > 0 THEN insideList(c)[1] ELSE Undefined

newPlace(c) ==
    IF inside(c, c.desiredPlace)
    THEN c.desiredPlace
    ELSE IF Len(insideList(c)) > 0 /\ outside(c, c.desiredPlace)
         THEN insideList(c)[1]
         ELSE Undefined

\* Reading defaultOffset[undefined].l raises a TypeError: nothing is returned.
Threw == [threw |-> TRUE]

\* Mutation of getTooltipPosition: an undefined side is returned instead of
\* raising.
getTooltipPositionNoThrow(c) ==
    LET chosen == newPlace(c)
    IN  [threw    |-> FALSE,
         place    |-> chosen,
         position |-> [left |-> 0, top |-> 0]]

getTooltipPosition(c) ==
    LET chosen == newPlace(c)
    IN  IF chosen = Undefined
        THEN Threw
        ELSE [threw    |-> FALSE,
              place    |-> chosen,
              position |->
                  [left |-> parseInt(getTipOffsetLeft(c, chosen) - Num(c.target.left)),
                   top  |-> parseInt(getTipOffsetTop(c, chosen) - Num(c.target.top))]]

\* ------------------------------------------------------------ the inputs
Sizes == MinSize..MaxSize

TargetRects == [left : 0..MaxLeft, top : 0..MaxTop, width : Sizes, height : Sizes]

NodeRects == [left : {0}, top : {0}, width : Sizes, height : Sizes]

ViewWidths == {i * ViewStep : i \in 1..MaxViewW}

ViewHeights == {i * ViewStep : i \in 1..MaxViewH}

\* Sparse offset maps: the empty map and every map with a single key, nudging
\* by MaxOff pixels either way.
Offsets == UNION {[{k} -> {-MaxOff, MaxOff}] : k \in SideSet} \cup {<<>>}

\* What a mouse-enter on the component measures: the trigger anywhere, both
\* elements of the smallest size, any viewport.
Geometries ==
    [target : {t \in TargetRects : t.width = MinSize /\ t.height = MinSize},
     node : {n \in NodeRects : n.width = MinSize /\ n.height = MinSize},
     innerWidth : ViewWidths, innerHeight : ViewHeights]

Calls ==
    [target : TargetRects, node : NodeRects,
     innerWidth : ViewWidths, innerHeight : ViewHeights,
     desiredPlace : SideSet, offset : Offsets]

NoCall == [desiredPlace |-> Undefined]

NoRet == [threw |-> FALSE, place |-> Undefined]

\* A falsy desiredPlace prop (null or ''), which the default parameter lets through.
Falsy == ""

Props == [desiredPlace : SideSet \cup {Falsy}, offset : {<<>>, [top |-> MaxOff]}]

\* -------------------------------------------------- the Tooltip component
ComponentInit ==
    /\ props \in Props
    /\ unmounted = FALSE
    /\ visible = FALSE
    /\ position = [left |-> 0, top |-> 0]
    /\ place = props.desiredPlace

ArgsOf(g) ==
    [target |-> g.target, node |-> g.node,
     innerWidth |-> g.innerWidth, innerHeight |-> g.innerHeight,
     desiredPlace |-> IF props.desiredPlace = Falsy THEN "top" ELSE props.desiredPlace,
     offset |-> props.offset]

\* Mutation of onMouseEnter: the early return does not look at visible.
onMouseEnterWhileVisible(g) ==
    /\ last' = "enter"
    /\ IF unmounted
       THEN UNCHANGED <<ret, position, place, visible>>
       ELSE /\ ret' = getTooltipPosition(ArgsOf(g))
            /\ IF ret'.threw
               THEN UNCHANGED <<position, place, visible>>
               ELSE /\ position' = ret'.position
                    /\ place' = ret'.place
                    /\ visible' = TRUE
    /\ UNCHANGED <<call, unmounted, props>>

onMouseEnter(g) ==
    /\ last' = "enter"
    /\ IF unmounted \/ visible
       THEN UNCHANGED <<ret, position, place, visible>>
       ELSE /\ ret' = getTooltipPosition(ArgsOf(g))
            /\ IF ret'.threw
               THEN UNCHANGED <<position, place, visible>>
               ELSE /\ position' = ret'.position
                    /\ place' = ret'.place
                    /\ visible' = TRUE
    /\ UNCHANGED <<call, unmounted, props>>

onMouseLeave ==
    /\ last' = "leave"
    /\ IF unmounted \/ ~visible
       THEN UNCHANGED visible
       ELSE visible' = FALSE
    /\ UNCHANGED <<call, ret, unmounted, position, place, props>>

Unmount ==
    /\ ~unmounted
    /\ last' = "unmount"
    /\ unmounted' = TRUE
    /\ UNCHANGED <<call, ret, visible, position, place, props>>

MouseEnter == \E g \in Geometries : onMouseEnter(g)

MouseLeave == onMouseLeave

Init ==
    /\ ComponentInit
    /\ call = NoCall
    /\ ret = NoRet
    /\ last = "none"

Next == MouseEnter \/ MouseLeave \/ Unmount

Spec == Init /\ [][Next]_vars

\* ------------------------------------- the placement calculator on its own
Calc ==
    /\ last = "none"
    /\ last' = "call"
    /\ ret' = getTooltipPosition(call)
    /\ UNCHANGED <<call, unmounted, visible, position, place, props>>

InitCalc ==
    /\ call \in Calls
    /\ ret = NoRet
    /\ last = "none"
    /\ unmounted = FALSE
    /\ visible = FALSE
    /\ position = [left |-> 0, top |-> 0]
    /\ place = "top"
    /\ props = [desiredPlace |-> "top", offset |-> <<>>]

NextCalc == Calc

SpecCalc == InitCalc /\ [][NextCalc]_vars

\* ------------------------------------------------------------ the claims
Done == last = "call"

\* The rectangle of side p lies within the viewport, bounds included.
Fits(c, p) ==
    /\ getTipOffsetLeft(c, p) >= 0
    /\ getTipOffsetRight(c, p) <= Num(c.innerWidth)
    /\ getTipOffsetTop(c, p) >= 0
    /\ getTipOffsetBottom(c, p) <= Num(c.innerHeight)

\* Which sides fit, and the first of them in the order top, bottom, left, right.
Fitting(c) ==
    [top |-> Fits(c, "top"), bottom |-> Fits(c, "bottom"),
     left |-> Fits(c, "left"), right |-> Fits(c, "right")]

FirstOf(f) ==
    IF f.top THEN "top"
    ELSE IF f.bottom THEN "bottom"
    ELSE IF f.left THEN "left"
    ELSE IF f.right THEN "right"
    ELSE Undefined

NoneFits(c) == FirstOf(Fitting(c)) = Undefined

\* C1: the side returned by getTooltipPosition is always one of top, bottom,
\* left, right; the call never ends without such a side.
C1_SideAlwaysValid == Done => (~ret.threw /\ ret.place \in SideSet)

\* C2: when none of the four sides is inside the viewport, getTooltipPosition
\* still returns: the side is desiredPlace and the position is the
\* trigger-relative left/top computed for desiredPlace.
C2_FallsBackToDesired ==
    (Done /\ NoneFits(call)) =>
        /\ ~ret.threw
        /\ ret.place = call.desiredPlace
        /\ ret.position =
             [left |-> parseInt(getTipOffsetLeft(call, call.desiredPlace)
                                  - Num(call.target.left)),
              top  |-> parseInt(getTipOffsetTop(call, call.desiredPlace)
                                  - Num(call.target.top))]

\* C3: whenever the rectangle computed for desiredPlace is inside the viewport,
\* the returned side is desiredPlace, whatever the other sides do.
C3_DesiredInsideIsKept ==
    (Done /\ Fits(call, call.desiredPlace)) =>
        (~ret.threw /\ ret.place = call.desiredPlace)

\* C3 witness: "right" is desired and fits while "top", earlier in the fixed
\* order, fits too and "left" does not; "right" is returned.
C3_Witness ==
    /\ Done
    /\ call.desiredPlace = "right"
    /\ Fits(call, "right") /\ Fits(call, "top") /\ ~Fits(call, "left")
    /\ ~ret.threw /\ ret.place = "right"

\* C4: when desiredPlace is outside and some side is inside, the returned side
\* is the first inside side in the order top, bottom, left, right; a target with
\* its top edge at 0, desiredPlace top and an empty offset has top outside and
\* gets bottom whenever bottom is inside.
C4_FirstInsideInFixedOrder ==
    Done =>
        LET fits == Fitting(call)
        IN  /\ (~fits[call.desiredPlace] /\ FirstOf(fits) # Undefined) =>
                   (~ret.threw /\ ret.place = FirstOf(fits))
            /\ (call.target.top = 0 /\ call.desiredPlace = "top"
                     /\ call.offset = <<>> /\ fits.bottom) =>
                   (~fits.top /\ ~ret.threw /\ ret.place = "bottom")

\* C4 witness: the pinned-at-top case returning bottom.
C4_Witness ==
    /\ Done
    /\ call.target.top = 0 /\ call.desiredPlace = "top" /\ call.offset = <<>>
    /\ Fits(call, "bottom") /\ Fits(call, "right")
    /\ ~ret.threw /\ ret.place = "bottom"

\* C5: for any side and integer k, with the same side chosen, offset {top: k}
\* gives position.top of the empty-offset call minus k, and offset {right: k}
\* gives position.left of the empty-offset call plus k.
NoOffset(c) == [c EXCEPT !.offset = <<>>]

C5_OffsetShiftsPosition ==
    Done =>
        \A k \in {-MaxOff, MaxOff} :
            LET base == getTooltipPosition(NoOffset(call))
            IN  /\ (call.offset = [top |-> k] /\ ~ret.threw /\ ~base.threw
                      /\ ret.place = base.place) =>
                       ret.position.top = base.position.top - k
                /\ (call.offset = [right |-> k] /\ ~ret.threw /\ ~base.threw
                      /\ ret.place = base.place) =>
                       ret.position.left = base.position.left + k

\* C6: in the table of getDefaultPosition, bottom mirrors top and right mirrors
\* left through the target's centre.
C6_TableMirrors ==
    Done =>
        LET d == defaultOffset(call)
        IN  /\ d.bottom.t = -d.top.b
            /\ d.bottom.b = -d.top.t
            /\ d.bottom.l = d.top.l
            /\ d.bottom.r = d.top.r
            /\ d.right.l = -d.left.r
            /\ d.right.r = -d.left.l
            /\ d.right.t = d.left.t
            /\ d.right.b = d.left.b

\* C8: a side is outside exactly when its left edge < 0, its right edge >
\* viewport width, its top edge < 0 or its bottom edge > viewport height, with
\* strict comparisons; inside is the negation.  Seen from the caller:
\* desiredPlace is returned exactly when its rectangle passes that test.
C8_OutsideIsStrict ==
    Done =>
        /\ \A p \in SideSet :
              LET out == outside(call, p)
              IN  /\ out <=>
                        \/ getTipOffsetLeft(call, p) < 0
                        \/ getTipOffsetRight(call, p) > Num(call.innerWidth)
                        \/ getTipOffsetTop(call, p) < 0
                        \/ getTipOffsetBottom(call, p) > Num(call.innerHeight)
                  /\ inside(call, p) <=> ~out
        /\ (~ret.threw /\ ret.place = call.desiredPlace) <=>
              Fits(call, call.desiredPlace)

\* C8 witness: the desired side touches the viewport's bounds (an edge at 0 and
\* an edge at the viewport's width or height) and is returned.
C8_Witness ==
    /\ Done
    /\ \/ getTipOffsetLeft(call, call.desiredPlace) = 0
       \/ getTipOffsetTop(call, call.desiredPlace) = 0
    /\ \/ getTipOffsetRight(call, call.desiredPlace) = Num(call.innerWidth)
       \/ getTipOffsetBottom(call, call.desiredPlace) = Num(call.innerHeight)
    /\ ~ret.threw /\ ret.place = call.desiredPlace

\* C9: whenever the returned side passed the inside test, the rendered box (top-
\* left corner at the returned position taken in viewport coordinates, size the
\* tooltip's measured width and height) lies within the viewport.
C9_RenderedBoxInViewport ==
    (Done /\ ~ret.threw /\ inside(call, ret.place)) =>
        LET boxLeft == call.target.left + ret.position.left
            boxTop  == call.target.top + ret.position.top
            tip     == getDimensions(call.node)
        IN  /\ boxLeft >= 0
            /\ boxTop >= 0
            /\ boxLeft + tip.width <= call.innerWidth
            /\ boxTop + tip.height <= call.innerHeight

\* C7: position and place change only on a mouse-enter that arrives while the
\* tooltip is not visible; a mouse-enter while visible changes nothing; a
\* mouse-leave leaves position and place alone and, on a mounted instance, ends
\* with visible false.
C7_OnlyFreshEnterMoves ==
    [][/\ (position' # position \/ place' # place) =>
              (last' = "enter" /\ ~visible /\ visible')
       /\ (last' = "enter" /\ visible) =>
              UNCHANGED <<position, place, visible>>
       /\ (last' = "leave") =>
              /\ position' = position /\ place' = place
              /\ ~unmounted => visible' = FALSE]_vars

\* C7 witness: after an enter that moved the tooltip and flipped its side, a
\* leave has hidden it and both position and place are still the enter's.
C7_Witness ==
    /\ last = "leave" /\ ~unmounted /\ ~visible
    /\ ~ret.threw /\ ret.place # Undefined
    /\ position = ret.position /\ position # [left |-> 0, top |-> 0]
    /\ place = ret.place /\ place # props.desiredPlace

\* C10: whenever the tooltip is visible its place is one of top, bottom, left,
\* right: a mouse-enter that chooses no valid side never shows the tooltip.
C10_VisibleHasValidPlace == visible => place \in SideSet

\* C10 witness: the last mouse-enter found no side inside the viewport and the
\* tooltip stayed hidden.
C10_Witness == last = "enter" /\ ~unmounted /\ ret.threw /\ ~visible

====
